---- MODULE Spec2Model ----
(***************************************************************************)
(* The two bounded, self-evicting caches of PATTERNS/hashmap.py:           *)
(* LRUCache (an OrderedDict, least recently used first) and LFUCache       *)
(* (key_to_val, key_to_freq, freq_to_keys buckets and min_freq).           *)
(* One cache object is constructed (kind, capacity) and then driven by an  *)
(* arbitrary sequence of get/put calls of bounded length.                  *)
(***************************************************************************)
EXTENDS Integers, Sequences, FiniteSets, TLC

\* ---- bounds of the model ------------------------------------------------
NumKeys == 3
MaxCapacity == 2
MaxOps == 5

\* ---- program constants --------------------------------------------------
\* the value get returns for an absent key
NotFound == -1
\* the frequency a freshly inserted key starts with (also the new min_freq)
InitialFreq == 1

Keys == 1..NumKeys
\* stored values: the miss sentinel itself and one ordinary value
Values == {NotFound, 7}
\* the constructors accept any integer: negative, zero and positive
Capacities == -1..MaxCapacity

VARIABLES
    kind,          \* which class was constructed: "LRU" or "LFU"
    capacity,      \* self.capacity
    cache,         \* LRUCache.cache: OrderedDict as a sequence of <<key, value>>
    min_freq,      \* LFUCache.min_freq
    key_to_val,    \* LFUCache.key_to_val
    key_to_freq,   \* LFUCache.key_to_freq
    freq_to_keys,  \* LFUCache.freq_to_keys: freq -> sequence of keys (oldest first)
    lastOp,        \* the call that returned last, with what it returned, and
                   \* whether its key had been touched by an earlier call (known)
    touch,         \* history: for each key, the number of the call that last touched it
    nops,          \* number of calls made so far
    frame          \* the running call of a stand-alone function: its arguments,
                   \* locals, position (pc) and return value

vars == <<kind, capacity, cache, min_freq, key_to_val, key_to_freq,
          freq_to_keys, lastOp, touch, nops, frame>>

\* ---- Python dict / OrderedDict / defaultdict primitives -------------------
EmptyDict == [x \in {} |-> 0]

DictSet(d, k, v) == [x \in (DOMAIN d) \cup {k} |-> IF x = k THEN v ELSE d[x]]

DictDel(d, k) == [x \in (DOMAIN d) \ {k} |-> d[x]]

\* OrderedDict of key -> value, as a sequence of pairs, first = oldest
OD_has(od, k) == \E i \in 1..Len(od) : od[i][1] = k

OD_index(od, k) == CHOOSE i \in 1..Len(od) : od[i][1] = k

OD_getitem(od, k) == od[OD_index(od, k)][2]

OD_keys(od) == {od[i][1] : i \in 1..Len(od)}

\* variant: move_to_end(key, last=False), which moves the pair to the front
OD_move_to_end_First(od, k) ==
    LET p == od[OD_index(od, k)]
    IN  <<p>> \o SelectSeq(od, LAMBDA q : q[1] # k)

OD_move_to_end(od, k) ==
    LET p == od[OD_index(od, k)]
    IN  SelectSeq(od, LAMBDA q : q[1] # k) \o <<p>>

\* the keys in iteration order, oldest first
OD_order(od) == [i \in 1..Len(od) |-> od[i][1]]

\* variant: a key already present keeps the value it had (setdefault)
OD_setitem_KeepOld(od, k, v) == IF OD_has(od, k) THEN od ELSE Append(od, <<k, v>>)

\* od[k] = v keeps the position of a key already present, appends a new one
OD_setitem(od, k, v) ==
    IF OD_has(od, k) THEN [od EXCEPT ![OD_index(od, k)] = <<k, v>>]
    ELSE Append(od, <<k, v>>)

\* variant: popitem() with last=True, which removes the last pair
OD_popitem_first_Last(od) == SubSeq(od, 1, Len(od) - 1)

\* popitem(last=False): removes the first pair
OD_popitem_first(od) == Tail(od)

\* a bucket of freq_to_keys is an OrderedDict key -> None: a sequence of keys
InBucket(b, k) == \E i \in 1..Len(b) : b[i] = k

BucketDel(b, k) == SelectSeq(b, LAMBDA x : x # k)

\* variant: a new key is put in front of the bucket
BucketSet_Front(b, k) == IF InBucket(b, k) THEN b ELSE <<k>> \o b

BucketSet(b, k) == IF InBucket(b, k) THEN b ELSE Append(b, k)

\* defaultdict(OrderedDict).__getitem__: reading a missing level creates it empty
DD_touch(ftk, f) == IF f \in DOMAIN ftk THEN ftk ELSE DictSet(ftk, f, <<>>)

\* ---- LRUCache -------------------------------------------------------------
\* variant: a hit does not refresh the key's position
LRU_get_NoMove(c, key) ==
    IF ~OD_has(c, key) THEN [cache |-> c, result |-> <<NotFound>>]
    ELSE [cache |-> c, result |-> <<OD_getitem(c, key)>>]

\* variant: a hit takes the pair out (pop) instead of moving it
LRU_get_Pop(c, key) ==
    IF ~OD_has(c, key) THEN [cache |-> c, result |-> <<NotFound>>]
    ELSE [cache |-> SelectSeq(c, LAMBDA q : q[1] # key),
          result |-> <<OD_getitem(c, key)>>]

\* variant: a miss stores the miss value under the key (as a defaultdict would)
LRU_get_MissInserts(c, key) ==
    IF ~OD_has(c, key)
    THEN [cache |-> Append(c, <<key, NotFound>>), result |-> <<NotFound>>]
    ELSE LET c1 == OD_move_to_end(c, key)
         IN  [cache |-> c1, result |-> <<OD_getitem(c1, key)>>]

\* get: result is <<v>> for "return v"
LRU_get(c, key) ==
    IF ~OD_has(c, key) THEN [cache |-> c, result |-> <<NotFound>>]
    ELSE LET c1 == OD_move_to_end(c, key)
         IN  [cache |-> c1, result |-> <<OD_getitem(c1, key)>>]

\* variant: the eviction test is off by one
LRU_overflow_OffByOne(c, cap) == Len(c) > cap + 1

\* variant: a capacity of 0 is taken to mean "no limit"
LRU_overflow_ZeroUnbounded(c, cap) == cap > 0 /\ Len(c) > cap

\* variant: evicts as soon as the cache is full
LRU_overflow_AtCapacity(c, cap) == Len(c) >= cap

\* len(self.cache) > self.capacity
LRU_overflow(c, cap) == Len(c) > cap

\* variant: popitem() with its default last=True, which removes the newest pair
LRU_put_PopLast(c, cap, key, value) ==
    LET c1 == IF OD_has(c, key) THEN OD_move_to_end(c, key) ELSE c
        c2 == OD_setitem(c1, key, value)
    IN  IF LRU_overflow(c2, cap)
        THEN [cache |-> SubSeq(c2, 1, Len(c2) - 1), evicted |-> {c2[Len(c2)][1]},
              raised |-> "none"]
        ELSE [cache |-> c2, evicted |-> {}, raised |-> "none"]

\* variant: a put of a resident key replaces the value where the key stands
LRU_put_NoMove(c, cap, key, value) ==
    LET c2 == OD_setitem(c, key, value)
    IN  IF LRU_overflow(c2, cap)
        THEN [cache |-> OD_popitem_first(c2), evicted |-> {c2[1][1]},
              raised |-> "none"]
        ELSE [cache |-> c2, evicted |-> {}, raised |-> "none"]

\* put; raised names the exception popitem would raise on an empty OrderedDict
LRU_put(c, cap, key, value) ==
    LET c1 == IF OD_has(c, key) THEN OD_move_to_end(c, key) ELSE c
        c2 == OD_setitem(c1, key, value)
    IN  IF LRU_overflow(c2, cap)
        THEN IF c2 = <<>>
             THEN [cache |-> c2, evicted |-> {}, raised |-> "KeyError"]
             ELSE [cache |-> OD_popitem_first(c2), evicted |-> {c2[1][1]},
                   raised |-> "none"]
        ELSE [cache |-> c2, evicted |-> {}, raised |-> "none"]

\* ---- LFUCache -------------------------------------------------------------
LFU_state == [min_freq |-> min_freq, key_to_val |-> key_to_val,
              key_to_freq |-> key_to_freq, freq_to_keys |-> freq_to_keys]

\* variant: min_freq is not advanced when its bucket empties
LFU_increase_freq_NoAdvance(s, key) ==
    LET freq == s.key_to_freq[key]
        k2f  == DictSet(s.key_to_freq, key, freq + 1)
        ftk0 == DD_touch(s.freq_to_keys, freq)
    IN  IF ~InBucket(ftk0[freq], key)
        THEN [st |-> [s EXCEPT !.key_to_freq = k2f, !.freq_to_keys = ftk0],
              raised |-> "KeyError"]
        ELSE LET ftk1  == [ftk0 EXCEPT ![freq] = BucketDel(@, key)]
                 ftk2  == IF ftk1[freq] = <<>> THEN DictDel(ftk1, freq) ELSE ftk1
                 ftk3  == DD_touch(ftk2, freq + 1)
                 ftk4  == [ftk3 EXCEPT ![freq + 1] = BucketSet(@, key)]
             IN  [st |-> [s EXCEPT !.key_to_freq = k2f, !.freq_to_keys = ftk4],
                  raised |-> "none"]

\* variant: min_freq is advanced whenever any bucket empties
LFU_increase_freq_AdvanceAlways(s, key) ==
    LET freq == s.key_to_freq[key]
        k2f  == DictSet(s.key_to_freq, key, freq + 1)
        ftk0 == DD_touch(s.freq_to_keys, freq)
    IN  IF ~InBucket(ftk0[freq], key)
        THEN [st |-> [s EXCEPT !.key_to_freq = k2f, !.freq_to_keys = ftk0],
              raised |-> "KeyError"]
        ELSE LET ftk1  == [ftk0 EXCEPT ![freq] = BucketDel(@, key)]
                 empty == ftk1[freq] = <<>>
                 ftk2  == IF empty THEN DictDel(ftk1, freq) ELSE ftk1
                 mf    == IF empty THEN s.min_freq + 1 ELSE s.min_freq
                 ftk3  == DD_touch(ftk2, freq + 1)
                 ftk4  == [ftk3 EXCEPT ![freq + 1] = BucketSet(@, key)]
             IN  [st |-> [s EXCEPT !.key_to_freq = k2f, !.freq_to_keys = ftk4,
                                   !.min_freq = mf],
                  raised |-> "none"]

\* variant: min_freq follows the key whenever the key was at min_freq, whether
\* or not its bucket emptied
LFU_increase_freq_AdvanceUnemptied(s, key) ==
    LET freq == s.key_to_freq[key]
        k2f  == DictSet(s.key_to_freq, key, freq + 1)
        ftk0 == DD_touch(s.freq_to_keys, freq)
    IN  IF ~InBucket(ftk0[freq], key)
        THEN [st |-> [s EXCEPT !.key_to_freq = k2f, !.freq_to_keys = ftk0],
              raised |-> "KeyError"]
        ELSE LET ftk1  == [ftk0 EXCEPT ![freq] = BucketDel(@, key)]
                 ftk2  == IF ftk1[freq] = <<>> THEN DictDel(ftk1, freq) ELSE ftk1
                 mf    == IF s.min_freq = freq THEN s.min_freq + 1 ELSE s.min_freq
                 ftk3  == DD_touch(ftk2, freq + 1)
                 ftk4  == [ftk3 EXCEPT ![freq + 1] = BucketSet(@, key)]
             IN  [st |-> [s EXCEPT !.key_to_freq = k2f, !.freq_to_keys = ftk4,
                                   !.min_freq = mf],
                  raised |-> "none"]

\* _increase_freq; raised names the exception a statement would raise, and st
\* the fields as that statement leaves them
LFU_increase_freq(s, key) ==
    LET freq == s.key_to_freq[key]
        k2f  == DictSet(s.key_to_freq, key, freq + 1)
        ftk0 == DD_touch(s.freq_to_keys, freq)
    IN  IF ~InBucket(ftk0[freq], key)
        THEN [st |-> [s EXCEPT !.key_to_freq = k2f, !.freq_to_keys = ftk0],
              raised |-> "KeyError"]
        ELSE LET ftk1  == [ftk0 EXCEPT ![freq] = BucketDel(@, key)]
                 empty == ftk1[freq] = <<>>
                 ftk2  == IF empty THEN DictDel(ftk1, freq) ELSE ftk1
                 mf    == IF empty /\ s.min_freq = freq
                          THEN s.min_freq + 1 ELSE s.min_freq
                 ftk3  == DD_touch(ftk2, freq + 1)
                 ftk4  == [ftk3 EXCEPT ![freq + 1] = BucketSet(@, key)]
             IN  [st |-> [s EXCEPT !.key_to_freq = k2f, !.freq_to_keys = ftk4,
                                   !.min_freq = mf],
                  raised |-> "none"]

\* variant: a hit returns the value and leaves the frequency as it is
LFU_get_NoBump(s, key) ==
    IF key \notin DOMAIN s.key_to_val
    THEN [st |-> s, result |-> <<NotFound>>, raised |-> "none"]
    ELSE [st |-> s, result |-> <<s.key_to_val[key]>>, raised |-> "none"]

LFU_get(s, key) ==
    IF key \notin DOMAIN s.key_to_val
    THEN [st |-> s, result |-> <<NotFound>>, raised |-> "none"]
    ELSE LET r == LFU_increase_freq(s, key)
         IN  IF r.raised # "none"
             THEN [st |-> r.st, result |-> <<>>, raised |-> r.raised]
             ELSE [st |-> r.st, result |-> <<r.st.key_to_val[key]>>,
                   raised |-> "none"]

\* variant: the eviction leaves the victim's entry in key_to_freq
LFU_evict_KeepFreq(s) ==
    LET ftk0   == DD_touch(s.freq_to_keys, s.min_freq)
        bucket == ftk0[s.min_freq]
    IN  IF bucket = <<>>
        THEN [st |-> [s EXCEPT !.freq_to_keys = ftk0], evicted |-> {},
              raised |-> "StopIteration"]
        ELSE [st |-> [s EXCEPT !.freq_to_keys = [ftk0 EXCEPT ![s.min_freq] = Tail(bucket)],
                               !.key_to_val = DictDel(@, Head(bucket))],
              evicted |-> {Head(bucket)}, raised |-> "none"]

\* the eviction of put: the first key of the bucket at min_freq
LFU_evict(s) ==
    LET ftk0   == DD_touch(s.freq_to_keys, s.min_freq)
        bucket == ftk0[s.min_freq]
    IN  IF bucket = <<>>
        THEN [st |-> [s EXCEPT !.freq_to_keys = ftk0], evicted |-> {},
              raised |-> "StopIteration"]
        ELSE LET evict_key == Head(bucket)
                 ftk1 == [ftk0 EXCEPT ![s.min_freq] = Tail(bucket)]
             IN  IF evict_key \notin DOMAIN s.key_to_val
                    \/ evict_key \notin DOMAIN s.key_to_freq
                 THEN [st |-> [s EXCEPT !.freq_to_keys = ftk1,
                                  !.key_to_val = DictDel(@, evict_key)],
                       evicted |-> {}, raised |-> "KeyError"]
                 ELSE [st |-> [s EXCEPT !.freq_to_keys = ftk1,
                                  !.key_to_val = DictDel(@, evict_key),
                                  !.key_to_freq = DictDel(@, evict_key)],
                       evicted |-> {evict_key}, raised |-> "none"]

\* variant: the insertion does not reset min_freq
LFU_insert_KeepMin(s, key, value) ==
    [s EXCEPT !.key_to_val = DictSet(@, key, value),
              !.key_to_freq = DictSet(@, key, InitialFreq),
              !.freq_to_keys = [DD_touch(@, InitialFreq)
                                    EXCEPT ![InitialFreq] = BucketSet(@, key)]]

\* the insertion of put: frequency 1, last in the level-1 bucket, min_freq 1
LFU_insert(s, key, value) ==
    [s EXCEPT !.key_to_val = DictSet(@, key, value),
              !.key_to_freq = DictSet(@, key, InitialFreq),
              !.freq_to_keys = [DD_touch(@, InitialFreq)
                                    EXCEPT ![InitialFreq] = BucketSet(@, key)],
              !.min_freq = InitialFreq]

\* variant: evicts only once the cache is over capacity
LFU_full_Late(s, cap) == Cardinality(DOMAIN s.key_to_val) > cap

\* variant: evicts one entry too early
LFU_full_Early(s, cap) == Cardinality(DOMAIN s.key_to_val) >= cap - 1

\* len(self.key_to_val) >= self.capacity
LFU_full(s, cap) == Cardinality(DOMAIN s.key_to_val) >= cap

\* variant: a put of a resident key replaces the value and leaves its frequency
LFU_put_positive_NoBump(s, cap, key, value) ==
    IF key \in DOMAIN s.key_to_val
    THEN [st |-> [s EXCEPT !.key_to_val = DictSet(@, key, value)],
          evicted |-> {}, raised |-> "none"]
    ELSE LET e == IF LFU_full(s, cap) THEN LFU_evict(s)
                  ELSE [st |-> s, evicted |-> {}, raised |-> "none"]
         IN  IF e.raised # "none" THEN e
             ELSE [st |-> LFU_insert(e.st, key, value), evicted |-> e.evicted,
                   raised |-> "none"]

\* variant: a put of a resident key counts the access and keeps the old value
LFU_put_positive_KeepValue(s, cap, key, value) ==
    IF key \in DOMAIN s.key_to_val
    THEN LET r == LFU_increase_freq(s, key)
         IN  [st |-> r.st, evicted |-> {}, raised |-> r.raised]
    ELSE LET e == IF LFU_full(s, cap) THEN LFU_evict(s)
                  ELSE [st |-> s, evicted |-> {}, raised |-> "none"]
         IN  IF e.raised # "none" THEN e
             ELSE [st |-> LFU_insert(e.st, key, value), evicted |-> e.evicted,
                   raised |-> "none"]

\* variant: a new key is inserted first and the eviction comes after
LFU_put_positive_InsertFirst(s, cap, key, value) ==
    IF key \in DOMAIN s.key_to_val
    THEN LET r == LFU_increase_freq([s EXCEPT !.key_to_val = DictSet(@, key, value)],
                                    key)
         IN  [st |-> r.st, evicted |-> {}, raised |-> r.raised]
    ELSE IF LFU_full(s, cap) THEN LFU_evict(LFU_insert(s, key, value))
         ELSE [st |-> LFU_insert(s, key, value), evicted |-> {}, raised |-> "none"]

\* put, below its capacity guard
LFU_put_positive(s, cap, key, value) ==
    IF key \in DOMAIN s.key_to_val
    THEN LET r == LFU_increase_freq([s EXCEPT !.key_to_val = DictSet(@, key, value)],
                                    key)
         IN  [st |-> r.st, evicted |-> {}, raised |-> r.raised]
    ELSE LET e == IF LFU_full(s, cap) THEN LFU_evict(s)
                  ELSE [st |-> s, evicted |-> {}, raised |-> "none"]
         IN  IF e.raised # "none" THEN e
             ELSE [st |-> LFU_insert(e.st, key, value), evicted |-> e.evicted,
                   raised |-> "none"]

\* variant: the capacity <= 0 guard is missing
LFU_put_NoGuard(s, cap, key, value) == LFU_put_positive(s, cap, key, value)

LFU_put(s, cap, key, value) ==
    IF cap <= 0 THEN [st |-> s, evicted |-> {}, raised |-> "none"]
    ELSE LFU_put_positive(s, cap, key, value)

\* ---- the state machine ----------------------------------------------------
NoOp == [op |-> "init", key |-> 0, value |-> 0, result |-> <<>>, hit |-> FALSE,
         evicted |-> {}, raised |-> "none", known |-> FALSE]

\* no stand-alone function is running
NoFrame == [fn |-> "none", pc |-> "none"]

\* LRUCache(capacity) or LFUCache(capacity)
Init ==
    /\ kind \in {"LRU", "LFU"}
    /\ capacity \in Capacities
    /\ cache = <<>>
    /\ min_freq = 0
    /\ key_to_val = EmptyDict
    /\ key_to_freq = EmptyDict
    /\ freq_to_keys = EmptyDict
    /\ lastOp = NoOp
    /\ touch = [k \in Keys |-> 0]
    /\ nops = 0
    /\ frame = NoFrame

LRUGet(k) ==
    /\ kind = "LRU"
    /\ nops < MaxOps
    /\ LET r == LRU_get(cache, k)
       IN  /\ cache' = r.cache
           /\ lastOp' = [op |-> "get", key |-> k, value |-> 0, result |-> r.result,
                         hit |-> OD_has(cache, k), evicted |-> {}, raised |-> "none",
                         known |-> touch[k] > 0]
           /\ touch' = IF OD_has(cache, k) THEN [touch EXCEPT ![k] = nops + 1]
                       ELSE touch
    /\ nops' = nops + 1
    /\ UNCHANGED <<kind, capacity, min_freq, key_to_val, key_to_freq, freq_to_keys,
                   frame>>

LRUPut(k, v) ==
    /\ kind = "LRU"
    /\ nops < MaxOps
    /\ LET r == LRU_put(cache, capacity, k, v)
       IN  /\ cache' = r.cache
           /\ lastOp' = [op |-> "put", key |-> k, value |-> v, result |-> <<>>,
                         hit |-> OD_has(cache, k), evicted |-> r.evicted,
                         raised |-> r.raised, known |-> touch[k] > 0]
    /\ touch' = [touch EXCEPT ![k] = nops + 1]
    /\ nops' = nops + 1
    /\ UNCHANGED <<kind, capacity, min_freq, key_to_val, key_to_freq, freq_to_keys,
                   frame>>

LFUApply(s) ==
    /\ min_freq' = s.min_freq
    /\ key_to_val' = s.key_to_val
    /\ key_to_freq' = s.key_to_freq
    /\ freq_to_keys' = s.freq_to_keys

LFUGet(k) ==
    /\ kind = "LFU"
    /\ nops < MaxOps
    /\ LET r == LFU_get(LFU_state, k)
       IN  /\ LFUApply(r.st)
           /\ lastOp' = [op |-> "get", key |-> k, value |-> 0, result |-> r.result,
                         hit |-> k \in DOMAIN key_to_val, evicted |-> {},
                         raised |-> r.raised, known |-> touch[k] > 0]
    /\ touch' = IF k \in DOMAIN key_to_val THEN [touch EXCEPT ![k] = nops + 1]
                ELSE touch
    /\ nops' = nops + 1
    /\ UNCHANGED <<kind, capacity, cache, frame>>

LFUPut(k, v) ==
    /\ kind = "LFU"
    /\ nops < MaxOps
    /\ LET r == LFU_put(LFU_state, capacity, k, v)
       IN  /\ LFUApply(r.st)
           /\ lastOp' = [op |-> "put", key |-> k, value |-> v, result |-> <<>>,
                         hit |-> k \in DOMAIN key_to_val, evicted |-> r.evicted,
                         raised |-> r.raised, known |-> touch[k] > 0]
    /\ touch' = IF capacity > 0 THEN [touch EXCEPT ![k] = nops + 1] ELSE touch
    /\ nops' = nops + 1
    /\ UNCHANGED <<kind, capacity, cache, frame>>

Next ==
    \/ \E k \in Keys : LRUGet(k)
    \/ \E k \in Keys, v \in Values : LRUPut(k, v)
    \/ \E k \in Keys : LFUGet(k)
    \/ \E k \in Keys, v \in Values : LFUPut(k, v)

Spec == Init /\ [][Next]_vars

\* ---- each cache alone, with room for every key -------------------------------
\* capacities from negative up to the number of keys
AllCapacities == -1..NumKeys

\* LRUCache(capacity)
InitLRU ==
    /\ kind = "LRU"
    /\ capacity \in AllCapacities
    /\ cache = <<>>
    /\ min_freq = 0
    /\ key_to_val = EmptyDict
    /\ key_to_freq = EmptyDict
    /\ freq_to_keys = EmptyDict
    /\ lastOp = NoOp
    /\ touch = [k \in Keys |-> 0]
    /\ nops = 0
    /\ frame = NoFrame

NextLRU ==
    \/ \E k \in Keys : LRUGet(k)
    \/ \E k \in Keys, v \in Values : LRUPut(k, v)

SpecLRU == InitLRU /\ [][NextLRU]_vars

\* LFUCache(capacity)
InitLFU ==
    /\ kind = "LFU"
    /\ capacity \in AllCapacities
    /\ cache = <<>>
    /\ min_freq = 0
    /\ key_to_val = EmptyDict
    /\ key_to_freq = EmptyDict
    /\ freq_to_keys = EmptyDict
    /\ lastOp = NoOp
    /\ touch = [k \in Keys |-> 0]
    /\ nops = 0
    /\ frame = NoFrame

NextLFU ==
    \/ \E k \in Keys : LFUGet(k)
    \/ \E k \in Keys, v \in Values : LFUPut(k, v)

SpecLFU == InitLFU /\ [][NextLFU]_vars

\* ---- what the calls are observed through ----------------------------------
\* the keys stored now
Residents == IF kind = "LRU" THEN OD_keys(cache) ELSE DOMAIN key_to_val

\* the number of stored keys: len(self.cache), len(self.key_to_val)
Size == IF kind = "LRU" THEN Len(cache) ELSE Cardinality(DOMAIN key_to_val)

\* what get(k) returns when it is called on the cache as it is now
GetNow(k) ==
    IF kind = "LRU" THEN LRU_get(cache, k).result ELSE LFU_get(LFU_state, k).result

\* the value stored for resident key k: self.cache[k], self.key_to_val[k]
Stored(k) == IF kind = "LRU" THEN OD_getitem(cache, k) ELSE key_to_val[k]

\* the stored bindings, order and frequencies left aside
Bindings ==
    IF kind = "LRU" THEN {cache[i] : i \in 1..Len(cache)}
    ELSE {<<k, key_to_val[k]>> : k \in DOMAIN key_to_val}

\* ---- C1 -------------------------------------------------------------------
\* C1: LRUCache capacity invariant. Each time a put returns, the number of
\* stored keys is at most the capacity when the capacity is positive, and is
\* exactly 0 when the capacity is 0 or negative (the bound of a negative
\* capacity is read as 0: no count is at most a negative number).
C1_LRUCapacity ==
    (kind = "LRU" /\ lastOp.op = "put") =>
        /\ (capacity > 0 => Len(cache) <= capacity)
        /\ (capacity <= 0 => Len(cache) = 0)
        /\ Cardinality(OD_keys(cache)) = Len(cache)

\* a put that had to evict returned, and the cache is exactly full
C1_Witness ==
    /\ kind = "LRU" /\ lastOp.op = "put" /\ lastOp.evicted # {}
    /\ capacity = 2 /\ Len(cache) = capacity

\* ---- C2 -------------------------------------------------------------------
\* C2: LFUCache capacity invariant. Each time a put returns, the number of keys
\* in key_to_val is at most the capacity when the capacity is positive, and is
\* exactly 0 when the capacity is 0 or negative.
C2_LFUCapacity ==
    (kind = "LFU" /\ lastOp.op = "put") =>
        /\ (capacity > 0 => Cardinality(DOMAIN key_to_val) <= capacity)
        /\ (capacity <= 0 => Cardinality(DOMAIN key_to_val) = 0)

\* a put that had to evict returned, and the cache is exactly full
C2_Witness ==
    /\ kind = "LFU" /\ lastOp.op = "put" /\ lastOp.evicted # {}
    /\ capacity = 2 /\ Cardinality(DOMAIN key_to_val) = capacity

\* ---- C3 -------------------------------------------------------------------
\* C3: LRU eviction rule. Whenever a put on LRUCache removes a key, that key is
\* a resident at the moment of the removal (the key being put included) and
\* its last touch (a put of it, or a get that hit it) is older than the last
\* touch of every other resident. In particular, with capacity 2, after
\* put(1), put(2), get(1) the call put(3) removes key 2 and keeps 1 and 3.
C3_LRUEvictsLeastRecent ==
    [][ (kind = "LRU" /\ lastOp'.op = "put") =>
          /\ \A e \in lastOp'.evicted :
                /\ e \in OD_keys(cache) \cup {lastOp'.key}
                /\ \A r \in (OD_keys(cache) \cup {lastOp'.key}) \ {e} :
                       touch'[e] < touch'[r]
          /\ ( /\ capacity = 2 /\ nops = 3 /\ lastOp'.key = 3
               /\ touch = [k \in Keys |-> IF k = 1 THEN 3 ELSE IF k = 2 THEN 2 ELSE 0]
               /\ lastOp.op = "get" )
             => (lastOp'.evicted = {2} /\ OD_keys(cache') = {1, 3}) ]_vars

\* the state put(1), put(2), get(1), put(3) ends in, key 2 removed
C3_Witness ==
    /\ kind = "LRU" /\ capacity = 2 /\ nops = 4
    /\ lastOp.op = "put" /\ lastOp.key = 3 /\ lastOp.evicted = {2}
    /\ touch[1] = 3 /\ touch[2] = 2
    /\ OD_keys(cache) = {1, 3}

\* ---- C4 -------------------------------------------------------------------
\* C4: LFU eviction rule. Whenever a put on LFUCache removes a key, that key
\* was resident, no resident had a smaller frequency at that moment, and every
\* other resident of the same frequency was touched (inserted, hit by get, or
\* updated by put) later. In particular, with capacity 2, put(1), put(2),
\* put(3) removes key 1, while put(1), put(2), get(1), put(3) removes key 2.
C4_LFUEvictsLeastFrequent ==
    [][ (kind = "LFU" /\ lastOp'.op = "put") =>
          /\ \A e \in lastOp'.evicted :
                /\ e \in DOMAIN key_to_val
                /\ \A r \in (DOMAIN key_to_val) \ {e} :
                       \/ key_to_freq[e] < key_to_freq[r]
                       \/ key_to_freq[e] = key_to_freq[r] /\ touch[e] < touch[r]
          /\ ( /\ capacity = 2 /\ nops = 2 /\ lastOp'.key = 3
               /\ touch = [k \in Keys |-> IF k = 3 THEN 0 ELSE k] )
             => lastOp'.evicted = {1}
          /\ ( /\ capacity = 2 /\ nops = 3 /\ lastOp'.key = 3
               /\ touch = [k \in Keys |-> IF k = 1 THEN 3 ELSE IF k = 2 THEN 2 ELSE 0]
               /\ lastOp.op = "get" )
             => lastOp'.evicted = {2} ]_vars

\* the state put(1), put(2), get(1), put(3) ends in: key 2 (frequency 1) was
\* removed although key 1 (frequency 2) was touched before it was
C4_Witness ==
    /\ kind = "LFU" /\ capacity = 2 /\ nops = 4
    /\ lastOp.op = "put" /\ lastOp.key = 3 /\ lastOp.evicted = {2}
    /\ DOMAIN key_to_val = {1, 3} /\ key_to_freq[1] = 2

\* ---- C5 -------------------------------------------------------------------
\* C5 as stated: in both caches, whatever the capacity, get(k) called right
\* after put(k, v) finds k and returns v.
C5_RoundTripAnyCapacity ==
    lastOp.op = "put" =>
        /\ lastOp.key \in Residents
        /\ GetNow(lastOp.key) = <<lastOp.value>>

\* C5 amended: in both caches with capacity >= 1, from every reachable state
\* and for any key k and value v, get(k) called right after put(k, v) finds k
\* and returns v.
C5_RoundTrip ==
    (lastOp.op = "put" /\ capacity >= 1) =>
        /\ lastOp.key \in Residents
        /\ GetNow(lastOp.key) = <<lastOp.value>>

\* a put of a new key into a full cache returned: another key was removed
C5_Witness ==
    /\ lastOp.op = "put" /\ capacity >= 1 /\ ~lastOp.hit
    /\ lastOp.evicted # {} /\ lastOp.value = 7

\* ---- C6 -------------------------------------------------------------------
\* C6: in LFUCache a resident key is removed only by a put of a key that is not
\* resident, made while the number of residents is >= capacity and capacity
\* > 0; a get never removes a key, nor does a put of a resident key, even when
\* the cache is full.
C6_LFURemovalOnlyOnInsertWhenFull ==
    [][ kind = "LFU" =>
          /\ ( (DOMAIN key_to_val) \ (DOMAIN key_to_val') # {}
               \/ lastOp'.evicted # {} )
             => /\ lastOp'.op = "put"
                /\ lastOp'.key \notin DOMAIN key_to_val
                /\ Cardinality(DOMAIN key_to_val) >= capacity
                /\ capacity > 0
          /\ (lastOp'.op = "get" \/ lastOp'.key \in DOMAIN key_to_val)
             => (DOMAIN key_to_val) \subseteq (DOMAIN key_to_val') ]_vars

\* a put of a resident key returned from a full cache, nothing was removed
C6_Witness ==
    /\ kind = "LFU" /\ lastOp.op = "put" /\ lastOp.hit
    /\ capacity = 2 /\ Cardinality(DOMAIN key_to_val) = capacity
    /\ lastOp.evicted = {}

\* ---- C7 -------------------------------------------------------------------
\* C7: idempotence of hits. In both caches a get leaves the set of resident
\* keys and every stored value as they were, so any number of consecutive
\* get(k) calls does; only the order (LRU) or the frequencies, buckets and
\* min_freq (LFU) may change.
C7_GetKeepsBindings ==
    [][ lastOp'.op = "get" => (Bindings' = Bindings /\ Size' = Size) ]_vars

\* an LFU key hit often enough to have reached frequency 3, next to another key
C7_Witness ==
    /\ kind = "LFU" /\ lastOp.op = "get" /\ lastOp.hit
    /\ key_to_freq[lastOp.key] >= 3
    /\ Cardinality(DOMAIN key_to_val) = 2

\* ---- C8 -------------------------------------------------------------------
\* C8: in both caches a get that hit is distinguishable from a get that
\* missed: what a hit returned is never what get returns for a key that is
\* absent from the same cache.
C8_HitDistinctFromMiss ==
    (lastOp.op = "get" /\ lastOp.hit) =>
        \A k \in Keys \ Residents : GetNow(k) # lastOp.result

\* ---- C9 -------------------------------------------------------------------
\* C9: LRUCache with capacity 0. Every put(k, v) inserts k (it was not
\* resident) and removes that same k before returning, so the cache is empty
\* after every call, and every get misses and returns the miss value.
C9_LRUCapacityZero ==
    (kind = "LRU" /\ capacity = 0) =>
        /\ cache = <<>>
        /\ lastOp.op = "put" => (~lastOp.hit /\ lastOp.evicted = {lastOp.key})
        /\ lastOp.op = "get" => (~lastOp.hit /\ lastOp.result = <<NotFound>>)

\* a get of a key that was put earlier, on a cache of capacity 0
C9_Witness ==
    /\ kind = "LRU" /\ capacity = 0
    /\ lastOp.op = "get" /\ touch[lastOp.key] > 0 /\ nops >= 3

\* ---- C10 ------------------------------------------------------------------
\* C10: LFUCache with capacity <= 0. Every put leaves key_to_val, key_to_freq,
\* freq_to_keys and min_freq as the constructor set them, and every get misses.
C10_LFUCapacityNonPositive ==
    (kind = "LFU" /\ capacity <= 0) =>
        /\ key_to_val = EmptyDict
        /\ key_to_freq = EmptyDict
        /\ freq_to_keys = EmptyDict
        /\ min_freq = 0
        /\ lastOp.raised = "none"
        /\ lastOp.op = "get" => (~lastOp.hit /\ lastOp.result = <<NotFound>>)

\* a put that returned on a cache of capacity 0, after earlier calls
C10_Witness ==
    /\ kind = "LFU" /\ capacity = 0
    /\ lastOp.op = "put" /\ lastOp.value = 7 /\ nops >= 3

\* ---- C11 ------------------------------------------------------------------
\* C11: LRUCache.put on a key that is already resident (capacity >= 1)
\* replaces its value, makes it the most recently used entry and removes no
\* key: the resident set is the same afterwards, also when the cache is full,
\* and every other entry keeps its value. Stated of put(k, v) called on the
\* cache in any reachable state.
C11_LRUPutResident ==
    (kind = "LRU" /\ capacity >= 1) =>
        \A k \in OD_keys(cache), v \in Values :
            LET r == LRU_put(cache, capacity, k, v)
            IN  /\ r.evicted = {} /\ r.raised = "none"
                /\ OD_keys(r.cache) = OD_keys(cache)
                /\ Len(r.cache) = Len(cache)
                /\ r.cache[Len(r.cache)] = <<k, v>>
                /\ \A j \in OD_keys(cache) \ {k} :
                       OD_getitem(r.cache, j) = OD_getitem(cache, j)

\* a put of the older of two residents returned from a full cache with a new
\* value: the key is now last and nothing was removed
C11_Witness ==
    /\ kind = "LRU" /\ capacity = 2 /\ Len(cache) = 2
    /\ lastOp.op = "put" /\ lastOp.hit /\ lastOp.evicted = {}
    /\ cache[2] = <<lastOp.key, lastOp.value>>
    /\ touch[cache[1][1]] < touch[lastOp.key] /\ lastOp.value = 7

\* ---- C12 ------------------------------------------------------------------
\* C12: LFUCache.put(k, v) on a resident key k (capacity > 0) replaces k's
\* value with v, and leaves key_to_freq, freq_to_keys (contents and order) and
\* min_freq exactly as get(k) leaves them from the same state; no other value
\* changes and no key is removed.
C12_LFUPutResidentAsGet ==
    (kind = "LFU" /\ capacity > 0) =>
        \A k \in DOMAIN key_to_val, v \in Values :
            LET p == LFU_put(LFU_state, capacity, k, v)
                g == LFU_get(LFU_state, k)
            IN  /\ p.st.key_to_val = DictSet(key_to_val, k, v)
                /\ p.st.key_to_freq = g.st.key_to_freq
                /\ p.st.freq_to_keys = g.st.freq_to_keys
                /\ p.st.min_freq = g.st.min_freq
                /\ p.st.key_to_freq[k] = key_to_freq[k] + 1
                /\ p.evicted = {} /\ p.raised = g.raised

\* a put of a resident key returned and moved it from level 1 to level 2,
\* emptying the bucket min_freq pointed to
C12_Witness ==
    /\ kind = "LFU" /\ capacity > 0
    /\ lastOp.op = "put" /\ lastOp.hit
    /\ key_to_freq[lastOp.key] = 2 /\ min_freq = 2
    /\ key_to_val[lastOp.key] = lastOp.value

\* ---- C13 ------------------------------------------------------------------
\* C13: no get or put on either cache fails, from any reachable state and with
\* any integer capacity. The call that returned last raised nothing and no call
\* made now would; in LFUCache the bucket freq_to_keys[min_freq] is non-empty
\* whenever a put would evict, and every resident key is in the bucket at its
\* own frequency, which is where _increase_freq deletes it.
C13_NoOperationFails ==
    /\ lastOp.raised = "none"
    /\ kind = "LRU" =>
          \A k \in Keys, v \in Values : LRU_put(cache, capacity, k, v).raised = "none"
    /\ kind = "LFU" =>
          /\ \A k \in Keys : LFU_get(LFU_state, k).raised = "none"
          /\ \A k \in Keys, v \in Values :
                 LFU_put(LFU_state, capacity, k, v).raised = "none"
          /\ (capacity > 0 /\ LFU_full(LFU_state, capacity)) =>
                 /\ min_freq \in DOMAIN freq_to_keys
                 /\ freq_to_keys[min_freq] # <<>>
          /\ \A k \in DOMAIN key_to_val :
                 /\ k \in DOMAIN key_to_freq
                 /\ key_to_freq[k] \in DOMAIN freq_to_keys
                 /\ InBucket(freq_to_keys[key_to_freq[k]], k)

\* an eviction that read the bucket at min_freq = 2 and found its first key
C13_Witness ==
    /\ kind = "LFU" /\ lastOp.op = "put" /\ lastOp.evicted # {}
    /\ 2 \in DOMAIN freq_to_keys /\ freq_to_keys[2] = <<>>
    /\ lastOp.raised = "none"

\* ---- C18 ------------------------------------------------------------------
\* the frequency levels of freq_to_keys whose bucket holds a key
NonEmptyLevels == {f \in DOMAIN freq_to_keys : freq_to_keys[f] # <<>>}

\* C18: LFU min_freq invariant. After every get or put, if the LFUCache is not
\* empty then min_freq is the smallest frequency level whose bucket is
\* non-empty, which is also the least key_to_freq over the residents.
C18_LFUMinFreq ==
    (kind = "LFU" /\ DOMAIN key_to_val # {}) =>
        /\ min_freq \in NonEmptyLevels
        /\ \A f \in NonEmptyLevels : min_freq <= f
        /\ \E k \in DOMAIN key_to_val : key_to_freq[k] = min_freq
        /\ \A k \in DOMAIN key_to_val : min_freq <= key_to_freq[k]

\* two residents at different frequencies, the smaller one above 1
C18_Witness ==
    /\ kind = "LFU" /\ Cardinality(DOMAIN key_to_val) = 2
    /\ min_freq = 2
    /\ \E k \in DOMAIN key_to_val : key_to_freq[k] = 3

\* ---- C19 ------------------------------------------------------------------
\* C19: LFU ledger pruning. After every get or put, freq_to_keys holds no
\* frequency level whose bucket is empty; a bucket emptied by an eviction is
\* removed as one emptied by a frequency increment is.
C19_NoEmptyBucket ==
    kind = "LFU" => \A f \in DOMAIN freq_to_keys : freq_to_keys[f] # <<>>

\* ---- C20 ------------------------------------------------------------------
\* the number of places key k takes in the buckets of freq_to_keys
Occurrences(k) ==
    Cardinality({<<f, i>> \in (DOMAIN freq_to_keys) \X (1..NumKeys) :
                    i <= Len(freq_to_keys[f]) /\ freq_to_keys[f][i] = k})

\* C20: LFU cross-structure consistency. After every get or put, key_to_val
\* and key_to_freq have the same key set; each resident key appears exactly
\* once in the buckets of freq_to_keys, in the bucket at level
\* key_to_freq[key]; no key that is not resident appears in any bucket.
C20_LFUConsistent ==
    kind = "LFU" =>
        /\ DOMAIN key_to_val = DOMAIN key_to_freq
        /\ \A k \in DOMAIN key_to_val :
               /\ Occurrences(k) = 1
               /\ key_to_freq[k] \in DOMAIN freq_to_keys
               /\ InBucket(freq_to_keys[key_to_freq[k]], k)
        /\ \A f \in DOMAIN freq_to_keys :
               /\ Len(freq_to_keys[f]) <= NumKeys
               /\ \A i \in 1..Len(freq_to_keys[f]) :
                      freq_to_keys[f][i] \in DOMAIN key_to_val

\* a full cache after an eviction, its residents at two different levels and
\* the evicted key in no bucket
C20_Witness ==
    /\ kind = "LFU" /\ lastOp.op = "put" /\ lastOp.evicted # {}
    /\ Cardinality(DOMAIN key_to_val) = 2
    /\ \E k \in DOMAIN key_to_val : key_to_freq[k] >= 2
    /\ \A e \in lastOp.evicted : Occurrences(e) = 0 /\ e \notin DOMAIN key_to_freq

\* ---- C21 ------------------------------------------------------------------
\* C21: LFU frequency lifecycle. In every call on LFUCache, a key that becomes
\* resident does so by a put of it and has frequency 1 when the put returns,
\* also when it had been resident and evicted before; a key that stays
\* resident has its frequency increased by exactly 1 when the call is a get or
\* a put of that key, and unchanged when the call is on any other key. So the
\* frequency of a resident never decreases.
C21_LFUFrequencyLifecycle ==
    [][ kind = "LFU" =>
          \A k \in Keys :
              /\ (k \notin DOMAIN key_to_val /\ k \in DOMAIN key_to_val')
                 => /\ lastOp'.op = "put" /\ lastOp'.key = k
                    /\ key_to_freq'[k] = 1
              /\ (k \in DOMAIN key_to_val /\ k \in DOMAIN key_to_val')
                 => key_to_freq'[k] =
                        IF lastOp'.key = k THEN key_to_freq[k] + 1
                        ELSE key_to_freq[k] ]_vars

\* a key that had been put before and was evicted is put again: it is back at
\* frequency 1, next to a resident that kept its frequency 2
C21_Witness ==
    /\ kind = "LFU" /\ capacity = 2
    /\ lastOp.op = "put" /\ ~lastOp.hit /\ lastOp.known /\ lastOp.evicted # {}
    /\ key_to_freq[lastOp.key] = 1
    /\ \E j \in DOMAIN key_to_val : key_to_freq[j] = 2

\* ---- C22 ------------------------------------------------------------------
\* C22: LFU minimum advance rule. From every reachable state, a get that hits
\* key k or a put that updates k, k being at frequency f, changes min_freq if
\* and only if f = min_freq and k is the only key of the bucket at level f
\* (the bucket becomes empty); min_freq then becomes f + 1, the lowest level
\* whose bucket holds a key afterwards. Emptying the bucket of any other level
\* leaves min_freq as it was.
C22_LFUMinAdvance ==
    (kind = "LFU" /\ capacity > 0) =>
        \A k \in DOMAIN key_to_val, v \in Values :
            LET f == key_to_freq[k]
                g == LFU_get(LFU_state, k).st
                p == LFU_put(LFU_state, capacity, k, v).st
                empties == freq_to_keys[f] = <<k>>
                lowest(st) == \A l \in DOMAIN st.freq_to_keys :
                                  st.freq_to_keys[l] # <<>> => st.min_freq <= l
            IN  /\ (g.min_freq # min_freq) <=> (f = min_freq /\ empties)
                /\ (p.min_freq # min_freq) <=> (f = min_freq /\ empties)
                /\ (f = min_freq /\ empties) =>
                       /\ g.min_freq = f + 1 /\ p.min_freq = f + 1
                       /\ InBucket(g.freq_to_keys[f + 1], k) /\ lowest(g)
                       /\ InBucket(p.freq_to_keys[f + 1], k) /\ lowest(p)
                /\ (f # min_freq /\ empties) =>
                       (g.min_freq = min_freq /\ p.min_freq = min_freq)

\* a hit took the last key out of the level-1 bucket min_freq pointed to, and
\* min_freq followed it to level 2, below another resident at level 3 whose
\* own moves had emptied buckets without moving min_freq
C22_Witness ==
    /\ kind = "LFU" /\ lastOp.hit
    /\ key_to_freq[lastOp.key] = 2 /\ min_freq = 2
    /\ 1 \notin DOMAIN freq_to_keys
    /\ \E j \in DOMAIN key_to_val : key_to_freq[j] = 3

\* ---- C23 ------------------------------------------------------------------
\* the bucket of level l, empty when freq_to_keys has no such level
LevelOf(ftk, l) == IF l \in DOMAIN ftk THEN ftk[l] ELSE <<>>

\* C23: LFU get hit. From every reachable state, get(k) on a resident key k of
\* frequency f returns the value stored for k, leaves k at frequency f + 1 and
\* last in the bucket of level f + 1, and every other resident keeps its value,
\* its frequency and its place relative to the others in its bucket.
C23_LFUGetHit ==
    kind = "LFU" =>
        \A k \in DOMAIN key_to_val :
            LET f == key_to_freq[k]
                g == LFU_get(LFU_state, k)
                b == LevelOf(g.st.freq_to_keys, f + 1)
            IN  /\ g.raised = "none"
                /\ g.result = <<key_to_val[k]>>
                /\ g.st.key_to_val = key_to_val
                /\ g.st.key_to_freq = DictSet(key_to_freq, k, f + 1)
                /\ b # <<>> /\ b[Len(b)] = k
                /\ \A l \in (DOMAIN freq_to_keys) \cup (DOMAIN g.st.freq_to_keys) :
                       BucketDel(LevelOf(g.st.freq_to_keys, l), k)
                           = BucketDel(LevelOf(freq_to_keys, l), k)

\* a get hit that returned 7 and put its key behind the key that was already
\* in the bucket of level 2
C23_Witness ==
    /\ kind = "LFU" /\ lastOp.op = "get" /\ lastOp.hit /\ lastOp.result = <<7>>
    /\ key_to_freq[lastOp.key] = 2
    /\ Len(freq_to_keys[2]) = 2 /\ freq_to_keys[2][2] = lastOp.key

\* ---- C24 ------------------------------------------------------------------
\* C24: LFU insertion. From every reachable state with capacity > 0, put(k, v)
\* of a key k that is not resident removes at most one key, and one only if
\* the cache holds capacity keys; the key removed is one of the old residents,
\* never k; when the put returns the residents are the old ones without the
\* victim plus k, k has value v and frequency 1, is last in the bucket of
\* level 1, and min_freq is 1.
C24_LFUInsertion ==
    (kind = "LFU" /\ capacity > 0) =>
        \A k \in Keys \ DOMAIN key_to_val, v \in Values :
            LET p == LFU_put(LFU_state, capacity, k, v)
                b == LevelOf(p.st.freq_to_keys, 1)
            IN  /\ p.raised = "none"
                /\ Cardinality(p.evicted) <= 1
                /\ p.evicted # {} => Cardinality(DOMAIN key_to_val) = capacity
                /\ p.evicted \subseteq DOMAIN key_to_val
                /\ k \notin p.evicted
                /\ DOMAIN p.st.key_to_val = ((DOMAIN key_to_val) \ p.evicted) \cup {k}
                /\ p.st.key_to_val[k] = v
                /\ p.st.key_to_freq[k] = 1
                /\ b # <<>> /\ b[Len(b)] = k
                /\ p.st.min_freq = 1

\* a put of a new key returned from a full cache whose residents were all at
\* level 2: one of them was removed, and the new key is alone at level 1
C24_Witness ==
    /\ kind = "LFU" /\ capacity = 2
    /\ lastOp.op = "put" /\ ~lastOp.hit /\ Cardinality(lastOp.evicted) = 1
    /\ freq_to_keys[1] = <<lastOp.key>> /\ min_freq = 1
    /\ Len(freq_to_keys[2]) = 1
    /\ DOMAIN key_to_val = {lastOp.key, freq_to_keys[2][1]}

\* ---- C25 ------------------------------------------------------------------
\* C25: LRU ordering. On LRUCache with capacity >= 1, from every reachable
\* state, a get that hits k and a put of k (insert or update) leave k at the
\* most recently used end of the order, every resident exactly once in the
\* order, and the other residents that remain in the order they had.
C25_LRUOrdering ==
    (kind = "LRU" /\ capacity >= 1) =>
        /\ Cardinality(OD_keys(cache)) = Len(cache)
        /\ \A k \in OD_keys(cache) :
               LET g == LRU_get(cache, k).cache
               IN  /\ g[Len(g)][1] = k
                   /\ Cardinality(OD_keys(g)) = Len(g)
                   /\ BucketDel(OD_order(g), k) = BucketDel(OD_order(cache), k)
        /\ \A k \in Keys, v \in Values :
               LET r == LRU_put(cache, capacity, k, v)
                   p == r.cache
               IN  /\ p # <<>> /\ p[Len(p)][1] = k
                   /\ Cardinality(OD_keys(p)) = Len(p)
                   /\ BucketDel(OD_order(p), k)
                          = SelectSeq(OD_order(cache),
                                      LAMBDA x : x # k /\ x \notin r.evicted)

\* a get hit the oldest of three residents: it is now last, and the other two
\* are in the order of their last touches
C25_Witness ==
    /\ kind = "LRU" /\ capacity = 3 /\ Len(cache) = 3
    /\ lastOp.op = "get" /\ lastOp.hit /\ cache[3][1] = lastOp.key
    /\ touch[cache[1][1]] < touch[cache[2][1]]
    /\ nops = 4

\* ---- C26 ------------------------------------------------------------------
\* C26 as stated: each LRUCache.put removes at most one key, and removes one
\* only when it inserted a key that was not resident and the cache held
\* exactly capacity keys before the call; get never removes a key.
C26_LRUEvictionAtCapacity ==
    kind = "LRU" =>
        /\ \A k \in Keys, v \in Values :
               LET r == LRU_put(cache, capacity, k, v)
               IN  /\ Cardinality(r.evicted) <= 1
                   /\ OD_keys(r.cache) = (OD_keys(cache) \cup {k}) \ r.evicted
                   /\ r.evicted # {} =>
                          (~OD_has(cache, k) /\ Len(cache) = capacity)
        /\ \A k \in Keys : OD_keys(LRU_get(cache, k).cache) = OD_keys(cache)

\* C26 amended: each LRUCache.put removes at most one key, and removes one
\* only when it inserted a key that was not resident and the cache held at
\* least capacity keys before the call (exactly capacity when the capacity is
\* not negative, none at all when it is negative); get never removes a key.
C26_LRUSingleEviction ==
    kind = "LRU" =>
        /\ \A k \in Keys, v \in Values :
               LET r == LRU_put(cache, capacity, k, v)
               IN  /\ Cardinality(r.evicted) <= 1
                   /\ OD_keys(r.cache) = (OD_keys(cache) \cup {k}) \ r.evicted
                   /\ r.evicted # {} =>
                          /\ ~OD_has(cache, k)
                          /\ Len(cache) >= capacity
                          /\ capacity >= 0 => Len(cache) = capacity
                          /\ capacity < 0 => Len(cache) = 0
        /\ \A k \in Keys : OD_keys(LRU_get(cache, k).cache) = OD_keys(cache)

\* a put of a new key returned from a cache that held two keys, its
\* capacity: exactly one of them was removed
C26_Witness ==
    /\ kind = "LRU" /\ capacity = 2 /\ Len(cache) = 2
    /\ lastOp.op = "put" /\ ~lastOp.hit /\ Cardinality(lastOp.evicted) = 1
    /\ lastOp.key \notin lastOp.evicted

\* ---- C27 ------------------------------------------------------------------
\* C27: in both caches with capacity >= 1, when put(k, v) has returned k is
\* resident and bound to v, and k is not the key the put removed: an eviction
\* caused by inserting k takes another key (in LRUCache the oldest of at least
\* two entries, in LFUCache a key chosen before k was inserted).
C27_PutKeepsItsKey ==
    (lastOp.op = "put" /\ capacity >= 1) =>
        /\ lastOp.key \in Residents
        /\ <<lastOp.key, lastOp.value>> \in Bindings
        /\ lastOp.key \notin lastOp.evicted
        /\ lastOp.evicted # {} =>
               /\ ~lastOp.hit
               /\ lastOp.evicted \cap Residents = {}
               /\ Size = capacity

\* LRUCache of capacity 1: a put of a second key returned, the first key was
\* removed and the new one is the only entry
C27_Witness ==
    /\ kind = "LRU" /\ capacity = 1
    /\ lastOp.op = "put" /\ ~lastOp.hit /\ lastOp.evicted # {}
    /\ cache = << <<lastOp.key, lastOp.value>> >>

\* ---- C28 ------------------------------------------------------------------
\* the keys touched so far: on LRUCache, the distinct keys ever put
Touched == {k \in Keys : touch[k] > 0}

\* the reference model: the m most recently touched of the touched keys
MostRecent(m) ==
    {k \in Touched : Cardinality({j \in Touched : touch[j] > touch[k]}) < m}

\* C28: LRUCache refines the list of keys sorted by last touch and truncated
\* to the capacity. After any sequence of calls on LRUCache with capacity
\* c >= 0, with n distinct keys put so far, the residents are exactly the
\* min(c, n) keys touched most recently (a touch is a put, or a get that hit),
\* and they stand in the cache in the order of their last touches.
C28_LRURefinesTouchOrder ==
    (kind = "LRU" /\ capacity >= 0) =>
        LET n == Cardinality(Touched)
            m == IF capacity < n THEN capacity ELSE n
        IN  /\ Len(cache) = m
            /\ OD_keys(cache) = MostRecent(m)
            /\ \A i, j \in 1..Len(cache) :
                   i < j => touch[cache[i][1]] < touch[cache[j][1]]

\* three keys were put into a cache of capacity 2 and the last call was a get
\* that hit: the two residents are not simply the last two keys inserted
C28_Witness ==
    /\ kind = "LRU" /\ capacity = 2 /\ Cardinality(Touched) = 3
    /\ Len(cache) = 2 /\ lastOp.op = "get" /\ lastOp.hit
    /\ cache[2][1] = lastOp.key /\ nops = 5

\* ---- C29 ------------------------------------------------------------------
\* C29: in both caches a get of a key that is not resident returns -1 and
\* changes nothing: in LRUCache the keys, values and order, in LFUCache
\* key_to_val, key_to_freq, freq_to_keys and min_freq are as before the call,
\* and so is the key the next put would remove.
C29_MissChangesNothing ==
    [][ (lastOp'.op = "get" /\ lastOp'.key \notin Residents) =>
          /\ lastOp'.result = <<-1>> /\ ~lastOp'.hit /\ lastOp'.raised = "none"
          /\ cache' = cache
          /\ key_to_val' = key_to_val /\ key_to_freq' = key_to_freq
          /\ freq_to_keys' = freq_to_keys /\ min_freq' = min_freq
          /\ \A k \in Keys, v \in Values :
                 /\ LRU_put(cache', capacity, k, v).evicted
                        = LRU_put(cache, capacity, k, v).evicted
                 /\ kind = "LFU" =>
                        LFU_put(LFU_state', capacity, k, v).evicted
                            = LFU_put(LFU_state, capacity, k, v).evicted ]_vars

\* a get missed a key that had been put and evicted, on a full LFUCache
C29_Witness ==
    /\ kind = "LFU" /\ lastOp.op = "get" /\ ~lastOp.hit /\ lastOp.known
    /\ lastOp.result = <<-1>>
    /\ capacity >= 1 /\ Cardinality(DOMAIN key_to_val) = capacity

\* ---- C30 ------------------------------------------------------------------
\* C30: in both caches the value stored for a key is the value of the most
\* recent put of that key since it became resident, and a get that hits
\* returns it. Step by step: a key becomes resident only by a put of it and is
\* then bound to the value put; while it stays resident its value changes only
\* by a put of that key, to the value put, and not by a get, by a put of
\* another key or by the eviction of another key; a get that hits k returns
\* the value k was bound to when the call was made.
C30_ValueOfLastPut ==
    [][ \A k \in Keys :
          /\ (k \notin Residents /\ k \in Residents')
             => /\ lastOp'.op = "put" /\ lastOp'.key = k
                /\ Stored(k)' = lastOp'.value
          /\ (k \in Residents /\ k \in Residents')
             => Stored(k)' = IF lastOp'.op = "put" /\ lastOp'.key = k
                             THEN lastOp'.value ELSE Stored(k)
          /\ (k \in Residents /\ lastOp'.op = "get" /\ lastOp'.key = k)
             => /\ lastOp'.hit /\ lastOp'.result = <<Stored(k)>>
                /\ k \in Residents' ]_vars

\* a get hit returned 7 for a key touched three times, while the other
\* resident, put after that key, is bound to another value
C30_Witness ==
    /\ kind = "LFU" /\ lastOp.op = "get" /\ lastOp.hit /\ lastOp.result = <<7>>
    /\ key_to_freq[lastOp.key] = 3
    /\ \E j \in DOMAIN key_to_val : key_to_val[j] # 7 /\ key_to_freq[j] = 1

\* ==== the stand-alone functions ===========================================
\* bounds of their inputs
MaxIntervals == 3
MaxTime == 3

\* while a stand-alone function runs there is no cache
NoCache ==
    /\ kind = "none"
    /\ capacity = 0
    /\ cache = <<>>
    /\ min_freq = 0
    /\ key_to_val = EmptyDict
    /\ key_to_freq = EmptyDict
    /\ freq_to_keys = EmptyDict
    /\ lastOp = NoOp
    /\ touch = [k \in Keys |-> 0]
    /\ nops = 0

CacheUnchanged ==
    UNCHANGED <<kind, capacity, cache, min_freq, key_to_val, key_to_freq,
                freq_to_keys, lastOp, touch, nops>>

\* lists of at most MaxIntervals elements of S
ListsOf(S) == UNION {[1..n -> S] : n \in 0..MaxIntervals}

\* tuple comparison of two-element sort keys, as Python compares tuples
KeyLess(a, b) == a[1] < b[1] \/ (a[1] = b[1] /\ a[2] < b[2])

\* list.sort(key=...): the stable sort of seq, keys[i] being the key of seq[i];
\* seq[i] goes to the place that counts the elements with a smaller key and the
\* earlier ones with its key
SortByKey(seq, keys) ==
    LET n == Len(seq)
        rank(i) == 1 + Cardinality({j \in 1..n :
                        \/ KeyLess(keys[j], keys[i])
                        \/ (keys[j] = keys[i] /\ j < i)})
    IN  [p \in 1..n |-> seq[CHOOSE i \in 1..n : rank(i) = p]]

\* ---- mergeHighDefinitionIntervals -----------------------------------------
\* [start, end] pairs with start <= end
ClosedIntervals == {<<a, b>> \in (0..MaxTime) \X (0..MaxTime) : a <= b}

\* variant: intervals that only touch are not merged
Merge_overlap_Strict(cur_start, last_end) == cur_start < last_end

\* cur_start <= last_end
Merge_overlap(cur_start, last_end) == cur_start <= last_end

\* variant: the merged interval always takes the end of the current one
Merge_extends_Always(cur_end, last_end) == TRUE

\* cur_end > last_end
Merge_extends(cur_end, last_end) == cur_end > last_end

\* the sort key of phase 1: (x[0], x[1])
Merge_key(x) == <<x[1], x[2]>>

\* The list holds references: intervals is the list (a sequence of object
\* identities) and heap gives each [start, end] object its present contents.
InitMerge ==
    /\ NoCache
    /\ \E input \in ListsOf(ClosedIntervals) :
          frame = [fn |-> "merge", pc |-> "start", input |-> input,
                   heap |-> input, intervals |-> [i \in 1..Len(input) |-> i],
                   write |-> 0, read |-> 0, result |-> <<>>]

\* lines 61-92: the empty input returns [], any other is sorted in place
MergeStart ==
    /\ frame.fn = "merge" /\ frame.pc = "start"
    /\ IF Len(frame.intervals) = 0
       THEN frame' = [frame EXCEPT !.pc = "done", !.result = <<>>]
       ELSE frame' = [frame EXCEPT
                !.pc = "loop",
                !.intervals = SortByKey(frame.intervals,
                        [i \in 1..Len(frame.intervals) |->
                            Merge_key(frame.heap[frame.intervals[i]])]),
                !.write = 0,
                !.read = 1]
    /\ CacheUnchanged

\* lines 95-112: one iteration of the for loop (Python indices count from 0)
MergeLoop ==
    /\ frame.fn = "merge" /\ frame.pc = "loop"
    /\ frame.read < Len(frame.intervals)
    /\ LET cur       == frame.intervals[frame.read + 1]
           last      == frame.intervals[frame.write + 1]
           cur_start == frame.heap[cur][1]
           cur_end   == frame.heap[cur][2]
           last_end  == frame.heap[last][2]
       IN  IF Merge_overlap(cur_start, last_end)
           THEN IF Merge_extends(cur_end, last_end)
                THEN frame' = [frame EXCEPT !.heap[last][2] = cur_end,
                                            !.read = frame.read + 1]
                ELSE frame' = [frame EXCEPT !.read = frame.read + 1]
           ELSE frame' = [frame EXCEPT !.write = frame.write + 1,
                                       !.intervals[frame.write + 2] = cur,
                                       !.read = frame.read + 1]
    /\ CacheUnchanged

\* line 116: return intervals[:write + 1]
MergeReturn ==
    /\ frame.fn = "merge" /\ frame.pc = "loop"
    /\ frame.read >= Len(frame.intervals)
    /\ frame' = [frame EXCEPT
            !.pc = "done",
            !.result = [i \in 1..(frame.write + 1) |-> frame.heap[frame.intervals[i]]]]
    /\ CacheUnchanged

NextMerge == MergeStart \/ MergeLoop \/ MergeReturn

SpecMerge == InitMerge /\ [][NextMerge]_vars

\* ---- C14 ------------------------------------------------------------------
\* the points of the line, in half units, that the closed intervals of a list
\* cover: the point p stands for p/2, so the gap between 2 and 3 is a point
Covered(list) ==
    {p \in 0..(2 * MaxTime) : \E i \in 1..Len(list) :
        2 * list[i][1] <= p /\ p <= 2 * list[i][2]}

\* C14: mergeHighDefinitionIntervals. For every list of [start, end] intervals
\* with start <= end the result is sorted by start, the end of each result
\* interval is strictly below the start of the next (overlapping and touching
\* inputs are merged), and the result covers exactly the points the input
\* covers; the empty input yields [].
C14_MergeCorrect ==
    (frame.fn = "merge" /\ frame.pc = "done") =>
        LET res == frame.result
        IN  /\ \A i \in 1..(Len(res) - 1) :
                   res[i][1] <= res[i + 1][1] /\ res[i][2] < res[i + 1][1]
            /\ \A i \in 1..Len(res) : res[i][1] <= res[i][2]
            /\ Covered(res) = Covered(frame.input)
            /\ (frame.input = <<>>) => (res = <<>>)
            /\ (frame.input # <<>>) => (res # <<>>)

\* three unsorted intervals, two of them touching, merged into two
C14_Witness ==
    /\ frame.fn = "merge" /\ frame.pc = "done"
    /\ frame.input = << <<2, 3>>, <<0, 0>>, <<1, 2>> >>
    /\ frame.result = << <<0, 0>>, <<1, 3>> >>

\* ---- maximizeNonOverlappingMeetings ---------------------------------------
\* [start, end] meetings with start < end
Meetings == {<<a, b>> \in (0..MaxTime) \X (0..MaxTime) : a < b}

\* variant: the meetings are sorted by start time first
Meet_key_ByStart(x) == <<x[1], x[2]>>

\* the sort key: (x[1], x[0]), end time first
Meet_key(x) == <<x[2], x[1]>>

\* variant: a meeting that starts when the last one ends is skipped
Meet_follows_Strict(last_end, curr_start) == last_end < curr_start

\* last_end <= curr_start
Meet_follows(last_end, curr_start) == last_end <= curr_start

InitMeet ==
    /\ NoCache
    /\ \E input \in ListsOf(Meetings) :
          frame = [fn |-> "meetings", pc |-> "start", input |-> input,
                   meetings |-> input, count |-> 0, last_end |-> 0, i |-> 0,
                   result |-> 0]

\* lines 57-66: the empty input returns 0; any other is sorted by end time and
\* its first meeting is taken
MeetStart ==
    /\ frame.fn = "meetings" /\ frame.pc = "start"
    /\ IF Len(frame.meetings) = 0
       THEN frame' = [frame EXCEPT !.pc = "done", !.result = 0]
       ELSE LET sorted == SortByKey(frame.meetings,
                                [i \in 1..Len(frame.meetings) |->
                                    Meet_key(frame.meetings[i])])
            IN  frame' = [frame EXCEPT !.pc = "loop", !.meetings = sorted,
                                       !.count = 1, !.last_end = sorted[1][2],
                                       !.i = 1]
    /\ CacheUnchanged

\* lines 69-77: one iteration of the for loop (Python indices count from 0)
MeetLoop ==
    /\ frame.fn = "meetings" /\ frame.pc = "loop"
    /\ frame.i < Len(frame.meetings)
    /\ LET curr_start == frame.meetings[frame.i + 1][1]
           curr_end   == frame.meetings[frame.i + 1][2]
       IN  IF Meet_follows(frame.last_end, curr_start)
           THEN frame' = [frame EXCEPT !.count = frame.count + 1,
                                       !.last_end = curr_end,
                                       !.i = frame.i + 1]
           ELSE frame' = [frame EXCEPT !.i = frame.i + 1]
    /\ CacheUnchanged

\* line 79: return count
MeetReturn ==
    /\ frame.fn = "meetings" /\ frame.pc = "loop"
    /\ frame.i >= Len(frame.meetings)
    /\ frame' = [frame EXCEPT !.pc = "done", !.result = frame.count]
    /\ CacheUnchanged

NextMeet == MeetStart \/ MeetLoop \/ MeetReturn

SpecMeet == InitMeet /\ [][NextMeet]_vars

\* ---- C15 ------------------------------------------------------------------
\* two meetings overlap unless one ends no later than the other starts
Overlap(a, b) == ~(a[2] <= b[1] \/ b[2] <= a[1])

\* the sets of positions of a list whose meetings are pairwise non-overlapping
Compatible(list) ==
    {S \in SUBSET (1..Len(list)) :
        \A i \in S, j \in S : i # j => ~Overlap(list[i], list[j])}

\* C15: maximizeNonOverlappingMeetings. For every list of meetings with
\* start < end the returned count is the largest size of a set of meetings of
\* the list that are pairwise non-overlapping, meetings that only touch not
\* overlapping; the empty list yields 0.
C15_MeetingsOptimal ==
    (frame.fn = "meetings" /\ frame.pc = "done") =>
        /\ \E S \in Compatible(frame.input) : Cardinality(S) = frame.result
        /\ \A S \in Compatible(frame.input) : Cardinality(S) <= frame.result
        /\ (frame.input = <<>>) => (frame.result = 0)

\* a long meeting given first, and two touching ones inside it: the answer is 2
C15_Witness ==
    /\ frame.fn = "meetings" /\ frame.pc = "done"
    /\ frame.input = << <<0, 3>>, <<1, 2>>, <<2, 3>> >>
    /\ frame.result = 2

\* ---- isNonTrivialRotation -------------------------------------------------
\* bound of the strings' length
MaxStrLen == 3

\* strings of at most MaxStrLen characters of S, as sequences of characters
StringsOf(S) == UNION {[1..n -> S] : n \in 0..MaxStrLen}

\* lowercase letters
Lowercase == {"a", "b"}

\* needle in haystack, for Python strings
Contains(haystack, needle) ==
    \E off \in 0..(Len(haystack) - Len(needle)) :
        SubSeq(haystack, off + 1, off + Len(needle)) = needle

\* variant: only the empty string is turned down, the lengths are not compared
Rot_badLength_EmptyOnly(len_s1, len_s2) == len_s1 = 0

\* len_s1 != len_s2 or len_s1 == 0
Rot_badLength(len_s1, len_s2) == len_s1 # len_s2 \/ len_s1 = 0

InitRot ==
    /\ NoCache
    /\ \E s1 \in StringsOf(Lowercase), s2 \in StringsOf(Lowercase) :
          frame = [fn |-> "rotation", pc |-> "identical", s1 |-> s1, s2 |-> s2,
                   len_s1 |-> 0, len_s2 |-> 0, result |-> FALSE]

\* lines 58-59: identical strings are no rotation
RotIdentical ==
    /\ frame.fn = "rotation" /\ frame.pc = "identical"
    /\ IF frame.s1 = frame.s2
       THEN frame' = [frame EXCEPT !.pc = "done", !.result = FALSE]
       ELSE frame' = [frame EXCEPT !.pc = "length"]
    /\ CacheUnchanged

\* lines 62-65: different lengths, or empty strings, are no rotation
RotLength ==
    /\ frame.fn = "rotation" /\ frame.pc = "length"
    /\ LET len_s1 == Len(frame.s1)
           len_s2 == Len(frame.s2)
       IN  IF Rot_badLength(len_s1, len_s2)
           THEN frame' = [frame EXCEPT !.pc = "done", !.result = FALSE,
                                       !.len_s1 = len_s1, !.len_s2 = len_s2]
           ELSE frame' = [frame EXCEPT !.pc = "search",
                                       !.len_s1 = len_s1, !.len_s2 = len_s2]
    /\ CacheUnchanged

\* lines 69-70: return s2 in s1 + s1
RotSearch ==
    /\ frame.fn = "rotation" /\ frame.pc = "search"
    /\ LET double_str == frame.s1 \o frame.s1
       IN  frame' = [frame EXCEPT !.pc = "done",
                                  !.result = Contains(double_str, frame.s2)]
    /\ CacheUnchanged

NextRot == RotIdentical \/ RotLength \/ RotSearch

SpecRot == InitRot /\ [][NextRot]_vars

\* ---- C16 ------------------------------------------------------------------
\* s1[i:] + s1[:i]
Rotated(s1, i) == SubSeq(s1, i + 1, Len(s1)) \o SubSeq(s1, 1, i)

\* C16: isNonTrivialRotation(s1, s2) returns True exactly when s1 and s2 have
\* the same non-zero length, s2 differs from s1 and s2 = s1[i:] + s1[:i] for
\* some i; identical strings, strings of different lengths and non-rotations
\* yield False.
C16_RotationCorrect ==
    (frame.fn = "rotation" /\ frame.pc = "done") =>
        (frame.result <=>
            /\ Len(frame.s1) = Len(frame.s2)
            /\ Len(frame.s1) # 0
            /\ frame.s2 # frame.s1
            /\ \E i \in 0..Len(frame.s1) : frame.s2 = Rotated(frame.s1, i))

\* "aab" and "aba": a rotation that is not the identity
C16_Witness ==
    /\ frame.fn = "rotation" /\ frame.pc = "done"
    /\ frame.s1 = <<"a", "a", "b">> /\ frame.s2 = <<"a", "b", "a">>
    /\ frame.result = TRUE

\* ---- isAlphabeticPalindrome -----------------------------------------------
\* printable characters: letters of both cases, a digit and a symbol
CodeChars == {"a", "A", "b", "B", "1", "!"}

\* str.isalpha on one character
IsAlpha(ch) == ch \in {"a", "A", "b", "B"}

\* str.lower on one character
Lower(ch) == CASE ch = "A" -> "a" [] ch = "B" -> "b" [] OTHER -> ch

\* variant: the letters are kept in the case they come in
Pal_filter_NoLower(code) == SelectSeq(code, IsAlpha)

\* [char.lower() for char in code if char.isalpha()]
Pal_filter(code) ==
    LET letters == SelectSeq(code, IsAlpha)
    IN  [i \in 1..Len(letters) |-> Lower(letters[i])]

InitPal ==
    /\ NoCache
    /\ \E code \in StringsOf(CodeChars) :
          frame = [fn |-> "palindrome", pc |-> "filter", code |-> code,
                   filtered |-> <<>>, left |-> 0, right |-> 0, result |-> FALSE]

\* lines 59-63
PalFilter ==
    /\ frame.fn = "palindrome" /\ frame.pc = "filter"
    /\ LET filtered == Pal_filter(frame.code)
       IN  frame' = [frame EXCEPT !.pc = "loop", !.filtered = filtered,
                                  !.left = 0, !.right = Len(filtered) - 1]
    /\ CacheUnchanged

\* lines 65-69: one iteration of the while loop (Python indices count from 0)
PalLoop ==
    /\ frame.fn = "palindrome" /\ frame.pc = "loop"
    /\ frame.left < frame.right
    /\ IF frame.filtered[frame.left + 1] # frame.filtered[frame.right + 1]
       THEN frame' = [frame EXCEPT !.pc = "done", !.result = FALSE]
       ELSE frame' = [frame EXCEPT !.left = frame.left + 1,
                                   !.right = frame.right - 1]
    /\ CacheUnchanged

\* line 71: return True
PalReturn ==
    /\ frame.fn = "palindrome" /\ frame.pc = "loop"
    /\ ~(frame.left < frame.right)
    /\ frame' = [frame EXCEPT !.pc = "done", !.result = TRUE]
    /\ CacheUnchanged

NextPal == PalFilter \/ PalLoop \/ PalReturn

\* the function runs to its return: it takes its next step whenever it has one
SpecPal == InitPal /\ [][NextPal]_vars /\ WF_vars(NextPal)

\* ---- C17 ------------------------------------------------------------------
\* the positions of the letters of a string, in order
LetterPositions(code) ==
    SelectSeq([i \in 1..Len(code) |-> i],
              LAMBDA i : code[i] \in {"a", "A", "b", "B"})

\* two letters that differ at most in case
SameLetter(x, y) == \E pair \in {{"a", "A"}, {"b", "B"}} : x \in pair /\ y \in pair

\* the letters of a string read the same in both directions, case left aside
LettersPalindrome(code) ==
    LET pos == LetterPositions(code)
        n   == Len(pos)
    IN  \A k \in 1..n : SameLetter(code[pos[k]], code[pos[n + 1 - k]])

\* C17: isAlphabeticPalindrome(code) returns True exactly when the alphabetic
\* characters of code, lower-cased, read the same forwards and backwards; a
\* string without letters (the empty string too) yields True; and the
\* two-pointer loop terminates: every call reaches its return.
C17_PalindromeCorrect ==
    /\ [](  (frame.fn = "palindrome" /\ frame.pc = "done") =>
               /\ frame.result <=> LettersPalindrome(frame.code)
               /\ (LetterPositions(frame.code) = <<>>) => frame.result  )
    /\ [](  (frame.fn = "palindrome" /\ frame.pc = "loop") =>
               (frame.left >= 0 /\ frame.right < Len(frame.filtered))  )
    /\ <>(frame.pc = "done")

\* "a1A" is a palindrome of one letter in both cases around a digit: the loop
\* ran once, the pointers crossed and the call returned True
C17_Witness ==
    /\ frame.fn = "palindrome" /\ frame.pc = "done"
    /\ frame.code = <<"a", "1", "A">>
    /\ frame.left = 1 /\ frame.right = 0
    /\ frame.result = TRUE

====
